---- MODULE Spec2Model ----
(***************************************************************************)
(* Model of src/bot.py: the process supervisor (main), the rate limiter    *)
(* (user_last_request) and the request pipeline (handle_message).          *)
(*                                                                         *)
(* Strings the code inspects (message text, content-length header) are     *)
(* sequences of one-character strings.  The reply channel is the           *)
(* environment: reply_text / reply_audio deliver what they are given.      *)
(* handle_message is a coroutine: it keeps the event loop from its first   *)
(* line to its next await.  call is the frame of the invocation that holds *)
(* the loop (or has just returned); awaiting holds the frames suspended at *)
(* the await of line 118, the only await that is followed by more code.    *)
(***************************************************************************)
EXTENDS Integers, Sequences, FiniteSets, Bags, TLC

\* ---------------------------------------------------------------- bounds
NTasks == 2          \* handle_message invocations that can be in flight
NUsers == 2          \* distinct user identities
MaxTime == 20        \* largest value time.time() returns

Users == 1..NUsers

\* ------------------------------------------------------ config (25 - 27)
PLACEHOLDER == "YOUR_TELEGRAM_BOT_TOKEN"
NoEnv == "<unset>"
BotTokenEnv == {NoEnv, PLACEHOLDER, "123:abc"}

\* variant: the default is dropped, os.getenv("BOT_TOKEN")
Getenv_NoDefault(value, default) == value

\* os.getenv("BOT_TOKEN", "YOUR_TELEGRAM_BOT_TOKEN")
Getenv(value, default) == IF value = NoEnv THEN default ELSE value

RATE_LIMIT_SECONDS == 10
MAX_FILE_SIZE_MB == 50

\* ------------------------------------------------------------- strings
Whitespace == {" ", "\n", "\t"}

RECURSIVE LStrip(_)
LStrip(s) == IF s # <<>> /\ Head(s) \in Whitespace THEN LStrip(Tail(s)) ELSE s

RECURSIVE RStrip(_)
RStrip(s) ==
    IF s # <<>> /\ s[Len(s)] \in Whitespace
    THEN RStrip(SubSeq(s, 1, Len(s) - 1))
    ELSE s

\* str.strip()
Strip(s) == RStrip(LStrip(s))

\* str.startswith(prefix)
StartsWith(s, prefix) ==
    Len(s) >= Len(prefix) /\ SubSeq(s, 1, Len(prefix)) = prefix

HTTP == <<"h", "t", "t", "p">>

\* variant: "http" in url
ValidUrl_Contains(url) ==
    \E i \in 1..Len(url) : StartsWith(SubSeq(url, i, Len(url)), HTTP)

\* line 94: url.startswith("http")
ValidUrl(url) == StartsWith(url, HTTP)

\* message texts the platform delivers (filters.TEXT & ~filters.COMMAND)
Texts ==
    { <<" ", "h", "t", "t", "p", "s", ":", "/", "/", "k", "\n">>,
      <<"h", "i">>,
      <<"a", " ", "h", "t", "t", "p", ":", "/", "/", "k">> }

\* int(str) on a decimal string; Digits gives the value of each character
Digits == [c \in {"0", "1", "2", "3", "4", "5", "6", "7", "8", "9"} |->
             CASE c = "0" -> 0 [] c = "1" -> 1 [] c = "2" -> 2 [] c = "3" -> 3
               [] c = "4" -> 4 [] c = "5" -> 5 [] c = "6" -> 6 [] c = "7" -> 7
               [] c = "8" -> 8 [] c = "9" -> 9]

IsDecimal(s) == s # <<>> /\ \A i \in 1..Len(s) : s[i] \in DOMAIN Digits

RECURSIVE ParseInt(_)
ParseInt(s) ==
    IF s = <<>> THEN 0
    ELSE 10 * ParseInt(SubSeq(s, 1, Len(s) - 1)) + Digits[s[Len(s)]]

\* ------------------------------------------------------ time (line 85)
\* values time.time() returns: the multiples of half a window, and MaxTime.
\* The wall clock is not monotonic, so any value can follow any other.
Times ==
    {x \in 0..MaxTime : x % (RATE_LIMIT_SECONDS \div 2) = 0} \cup {MaxTime}

\* ------------------------------------------------- rate limiter (58, 88)
\* user_last_request is a defaultdict(float): a function whose domain is
\* the set of keys present; reading a missing key yields 0.0 and stores it.
DefaultGet(d, k) == IF k \in DOMAIN d THEN d[k] ELSE 0

DefaultTouch(d, k) ==
    IF k \in DOMAIN d THEN d
    ELSE [x \in DOMAIN d \cup {k} |-> IF x = k THEN 0 ELSE d[x]]

\* variant: the window is compared against half its length
RateLimited_HalfWindow(last, now) == now - last < RATE_LIMIT_SECONDS \div 2

\* variant: <= in place of <
RateLimited_Inclusive(last, now) == now - last <= RATE_LIMIT_SECONDS

\* line 88: current_time - user_last_request[user_id] < RATE_LIMIT_SECONDS
RateLimited(last, now) == now - last < RATE_LIMIT_SECONDS

\* variant: one timestamp shared by all identities
SetItem_AllUsers(d, k, v) == [x \in DOMAIN d \cup {k} |-> v]

\* variant: the assignment stores the default instead of current_time
SetItem_Default(d, k, v) == [x \in DOMAIN d \cup {k} |-> IF x = k THEN 0 ELSE d[x]]

\* line 91: user_last_request[user_id] = current_time
SetItem(d, k, v) == [x \in DOMAIN d \cup {k} |-> IF x = k THEN v ELSE d[x]]

\* variant: the timestamp is stored before the comparison of line 88
CheckEffect_RecordFirst(d, k, now) == SetItem(d, k, now)

\* line 88 leaves the mapping as the read of user_last_request[user_id]
\* leaves it: nothing is stored but a missing key's default
CheckEffect(d, k, now) == DefaultTouch(d, k)

\* ------------------------------------------------ resolver (67-75, 100)
\* what ydl.extract_info returns: None, or a dict (modelled by its keys)
Infos ==
    {[isNone |-> TRUE, keys |-> {}]} \cup
    {[isNone |-> FALSE, keys |-> k] : k \in {{}, {"title"}, {"url", "title"}}}

NoInfo == [isNone |-> TRUE, keys |-> {}]

\* truth value of the returned object: None and the empty dict are falsy
Truthy(info) == ~info.isNone /\ info.keys # {}

\* variant: only "not info" is tested
NoStreamUrl_OnlyFalsy(info) == ~Truthy(info)

\* line 100: not info or "url" not in info
NoStreamUrl(info) == ~Truthy(info) \/ "url" \notin info.keys

\* ------------------------------------------------- size gate (110, 111)
SizeLimit == MAX_FILE_SIZE_MB * 1024 * 1024

NoHeader == <<"N", "o", "n", "e">>

\* response.headers.get("content-length"): None, or the header's text
ContentLengths ==
    { NoHeader,
      <<>>,
      <<"x">>,
      <<"5", "2", "4", "2", "8", "8", "0", "0">>,
      <<"5", "2", "4", "2", "8", "8", "0", "1">> }

\* truth value of content_length: None and "" are falsy
HeaderGiven(cl) == cl # NoHeader /\ cl # <<>>

\* int(content_length) raises ValueError on a non-decimal string
IntRaises(cl) == HeaderGiven(cl) /\ ~IsDecimal(cl)

\* variant: >= in place of >
TooLarge_Inclusive(cl) == HeaderGiven(cl) /\ ParseInt(cl) >= SizeLimit

\* line 111: content_length and int(content_length) > MAX_FILE_SIZE_MB*1024*1024
TooLarge(cl) == HeaderGiven(cl) /\ ParseInt(cl) > SizeLimit

\* lengths of the body the server sends, whatever its header says
BodySizes == {1, SizeLimit + 1}

\* -------------------------------------------- sanitize_filename (63-65)
MaxTail == 2         \* longest tail of arbitrary characters in a file name

FILENAME_MAX == 100

\* the character class of line 64
Forbidden == {"<", ">", ":", "\"", "/", "\\", "|", "?", "*"}

\* characters file names are made of: the forbidden ones, a letter, and
\* the replacement character itself
NameChars == Forbidden \cup {"a", "_"}

RECURSIVE SeqsUpTo(_, _)
SeqsUpTo(S, n) ==
    IF n = 0 THEN {<<>>}
    ELSE LET shorter == SeqsUpTo(S, n - 1)
         IN  shorter \cup {Append(t, c) : t \in shorter, c \in S}

\* lengths of the run of letters a file name starts with: none, and those
\* that put the tail across the cut of line 65
PadLens == {0, FILENAME_MAX - 2, FILENAME_MAX - 1, FILENAME_MAX}

\* the strings sanitize_filename is called with
Filenames ==
    {[i \in 1..n |-> "a"] \o t : n \in PadLens, t \in SeqsUpTo(NameChars, MaxTail)}

\* variant: the character class without the backslash
Sub_NoBackslash(s) ==
    [i \in 1..Len(s) |-> IF s[i] \in Forbidden \ {"\\"} THEN "_" ELSE s[i]]

\* line 64: re.sub(r'[<>:"/\\|?*]', "_", filename)
Sub(s) == [i \in 1..Len(s) |-> IF s[i] \in Forbidden THEN "_" ELSE s[i]]

\* s[:n] for n >= 0
Slice(s, n) == SubSeq(s, 1, IF Len(s) < n THEN Len(s) ELSE n)

\* lines 63-65
sanitize_filename(filename) == Slice(Sub(filename), FILENAME_MAX)

\* no call of sanitize_filename is under study
NoSanitize == [filename |-> <<>>, clean |-> <<>>, calls |-> 0]

\* ------------------------------------------------ health server (128-136)
\* request paths of inbound GET requests
Paths == {"/", "/healthz"}

\* variant: only the root path is served
do_GET_RootOnly(path) ==
    IF path = "/" THEN [status |-> 200, body |-> "Bot is running"]
    ELSE [status |-> 404, body |-> ""]

\* lines 129-132: send_response(200), end_headers(), the body
do_GET(path) == [status |-> 200, body |-> "Bot is running"]

NoResponse == [path |-> "", status |-> 0, body |-> "", during |-> "idle"]

\* ------------------------------------------------- shutdown (141-143)
\* no termination signal has been received
NoStop == [signal |-> "none", via |-> "none", logged |-> FALSE]

\* ------------------------------------------------------------- state
VARIABLES
    BOT_TOKEN,          \* the environment's BOT_TOKEN (NoEnv when unset)
    main_pc,            \* position of main()
    exit_code,          \* -1 while the process runs, else sys.exit's code
    signals,            \* signals whose handler is signal_handler
    health_thread,      \* TRUE once the health server thread is started
    handlers,           \* handlers registered with the application
    user_last_request,  \* the rate-limit mapping
    call,               \* frame of the invocation holding the event loop
    awaiting,           \* bag of the frames suspended at line 118
    accepted,           \* per user: arrival times that passed the rate check
    sanitize,           \* the call of sanitize_filename under study
    http_response,      \* what the health server wrote last
    loop_signals,       \* signals the event loop of run_polling handles itself
    stop                \* the termination signal the process has received

vars == <<BOT_TOKEN, main_pc, exit_code, signals, health_thread, handlers,
          user_last_request, call, awaiting, accepted, sanitize, http_response,
          loop_signals, stop>>

mainVars == <<BOT_TOKEN, main_pc, exit_code, signals, health_thread, handlers>>
botVars == <<user_last_request, call, awaiting, accepted>>
sideVars == <<sanitize, http_response, loop_signals, stop>>

\* module-level TOKEN (line 25)
TOKEN == Getenv(BOT_TOKEN, PLACEHOLDER)

Frame0 ==
    [pc |-> "idle", user_id |-> 0, current_time |-> 0, url |-> <<>>,
     info |-> NoInfo,
     content_length |-> NoHeader, had_entry |-> FALSE,
     resolver_calls |-> 0, fetch_calls |-> 0, body_read |-> FALSE,
     body_size |-> 0,
     replies |-> <<>>, logs |-> <<>>, exc |-> "none"]

Init ==
    /\ BOT_TOKEN \in BotTokenEnv
    /\ main_pc = "check_token"
    /\ exit_code = -1
    /\ signals = {}
    /\ health_thread = FALSE
    /\ handlers = {}
    /\ user_last_request = <<>>
    /\ call = Frame0
    /\ awaiting = EmptyBag
    /\ accepted = [u \in Users |-> <<>>]
    /\ sanitize = NoSanitize
    /\ http_response = NoResponse
    /\ loop_signals = {}
    /\ stop = NoStop

\* --------------------------------------------------------- main (148-163)
\* lines 149-151
TokenMissing(token) == token = PLACEHOLDER

MainCheckToken ==
    /\ main_pc = "check_token"
    /\ IF TokenMissing(TOKEN)
       THEN main_pc' = "exited" /\ exit_code' = 1
       ELSE main_pc' = "install_signals" /\ exit_code' = exit_code
    /\ UNCHANGED <<BOT_TOKEN, signals, health_thread, handlers>>
    /\ UNCHANGED <<botVars, sideVars>>

\* lines 153-154
MainInstallSignals ==
    /\ main_pc = "install_signals"
    /\ signals' = {"SIGINT", "SIGTERM"}
    /\ main_pc' = "start_health"
    /\ UNCHANGED <<BOT_TOKEN, exit_code, health_thread, handlers>>
    /\ UNCHANGED <<botVars, sideVars>>

\* line 156
MainStartHealth ==
    /\ main_pc = "start_health"
    /\ health_thread' = TRUE
    /\ main_pc' = "build_app"
    /\ UNCHANGED <<BOT_TOKEN, exit_code, signals, handlers>>
    /\ UNCHANGED <<botVars, sideVars>>

\* lines 158-160
MainAddHandlers ==
    /\ main_pc = "build_app"
    /\ handlers' = {"start", "handle_message"}
    /\ main_pc' = "run_polling"
    /\ UNCHANGED <<BOT_TOKEN, exit_code, signals, health_thread>>
    /\ UNCHANGED <<botVars, sideVars>>

\* lines 162-163
MainRunPolling ==
    /\ main_pc = "run_polling"
    /\ main_pc' = "polling"
    /\ UNCHANGED <<BOT_TOKEN, exit_code, signals, health_thread, handlers>>
    /\ UNCHANGED <<botVars, sideVars>>

Polling == main_pc = "polling" /\ "handle_message" \in handlers

\* ----------------------------------------------- handle_message (83-123)
\* exception classes the resolver, the fetch and int() raise
ResolverErrors == {"DownloadError"}
FetchErrors == {"ConnectionError", "HTTPError"}
BodyErrors == {"ChunkedEncodingError"}
ExceptionClasses == ResolverErrors \cup FetchErrors \cup BodyErrors \cup {"ValueError"}

\* variant: no try block around the resolver and the fetch
Catches_Nothing(e) == FALSE

\* variant: except yt_dlp.utils.DownloadError
Catches_OnlyDownloadError(e) == e = "DownloadError"

\* line 121: except Exception
Catches(e) == e \in ExceptionClasses \/ e = "Exception"

\* variant: the coroutine also gives up the event loop between line 88
\* and line 91
LoopFree_YieldBeforeRecord == call.pc \in {"idle", "record"}

\* the event loop is free: no invocation holds it and the one that returned
\* last has been handed back to the application
LoopFree == call.pc = "idle"

\* invocations that have been called and have not returned
InFlight == BagCardinality(awaiting) + (IF LoopFree THEN 0 ELSE 1)

\* lines 83-88: the application calls handle_message(update, context);
\* user_id and current_time are read and the rate check is made
RateCheck(u, now) ==
    LET last == DefaultGet(user_last_request, u)
        limited == RateLimited(last, now)
    IN  /\ Polling
        /\ LoopFree
        /\ InFlight < NTasks
        /\ user_last_request' = CheckEffect(user_last_request, u, now)
        /\ call' = [Frame0 EXCEPT !.pc = IF limited THEN "reply_wait" ELSE "record",
                                  !.user_id = u,
                                  !.current_time = now,
                                  !.had_entry = u \in DOMAIN user_last_request]
        /\ accepted' = IF limited THEN accepted
                       ELSE [accepted EXCEPT ![u] = Append(@, now)]
        /\ UNCHANGED awaiting
        /\ UNCHANGED <<mainVars, sideVars>>

\* lines 89-90
ReplyWait ==
    /\ call.pc = "reply_wait"
    /\ call' = [call EXCEPT !.pc = "done", !.replies = Append(@, "wait")]
    /\ UNCHANGED <<user_last_request, awaiting, accepted>>
    /\ UNCHANGED <<mainVars, sideVars>>

\* line 91
Record ==
    /\ call.pc = "record"
    /\ user_last_request' = SetItem(user_last_request, call.user_id, call.current_time)
    /\ call' = [call EXCEPT !.pc = "validate"]
    /\ UNCHANGED <<awaiting, accepted>>
    /\ UNCHANGED <<mainVars, sideVars>>

\* lines 93-94: the message text is read and trimmed
Validate(txt) ==
    LET url == Strip(txt)
    IN  /\ call.pc = "validate"
        /\ call' = [call EXCEPT !.url = url,
                                !.pc = IF ~ValidUrl(url) THEN "reply_invalid"
                                       ELSE "resolve"]
        /\ UNCHANGED <<user_last_request, awaiting, accepted>>
        /\ UNCHANGED <<mainVars, sideVars>>

\* lines 95-96
ReplyInvalid ==
    /\ call.pc = "reply_invalid"
    /\ call' = [call EXCEPT !.pc = "done", !.replies = Append(@, "invalid_url")]
    /\ UNCHANGED <<user_last_request, awaiting, accepted>>
    /\ UNCHANGED <<mainVars, sideVars>>

\* line 99: download_audio_info(url) raises
ResolveRaises(e) ==
    /\ call.pc = "resolve"
    /\ call' = [call EXCEPT !.pc = "except", !.exc = e, !.resolver_calls = @ + 1]
    /\ UNCHANGED <<user_last_request, awaiting, accepted>>
    /\ UNCHANGED <<mainVars, sideVars>>

\* lines 99-100: download_audio_info(url) returns info
ResolveReturns(info) ==
    /\ call.pc = "resolve"
    /\ call' = [call EXCEPT !.pc = IF NoStreamUrl(info) THEN "reply_nofetch" ELSE "fetch",
                            !.info = info,
                            !.resolver_calls = @ + 1]
    /\ UNCHANGED <<user_last_request, awaiting, accepted>>
    /\ UNCHANGED <<mainVars, sideVars>>

\* lines 101-102
ReplyNoFetch ==
    /\ call.pc = "reply_nofetch"
    /\ call' = [call EXCEPT !.pc = "done", !.replies = Append(@, "could_not_fetch")]
    /\ UNCHANGED <<user_last_request, awaiting, accepted>>
    /\ UNCHANGED <<mainVars, sideVars>>

\* lines 107-108: requests.get raises, or raise_for_status raises
FetchRaises(e) ==
    /\ call.pc = "fetch"
    /\ call' = [call EXCEPT !.pc = "except", !.exc = e, !.fetch_calls = @ + 1]
    /\ UNCHANGED <<user_last_request, awaiting, accepted>>
    /\ UNCHANGED <<mainVars, sideVars>>

\* lines 107-111: the response arrives with its headers; the size gate
FetchReturns(cl) ==
    /\ call.pc = "fetch"
    /\ call' = [call EXCEPT !.fetch_calls = @ + 1,
                            !.content_length = cl,
                            !.exc = IF IntRaises(cl) THEN "ValueError" ELSE @,
                            !.pc = IF IntRaises(cl) THEN "except"
                                   ELSE IF TooLarge(cl) THEN "reply_toolarge"
                                   ELSE "read_body"]
    /\ UNCHANGED <<user_last_request, awaiting, accepted>>
    /\ UNCHANGED <<mainVars, sideVars>>

\* lines 112-113
ReplyTooLarge ==
    /\ call.pc = "reply_toolarge"
    /\ call' = [call EXCEPT !.pc = "done", !.replies = Append(@, "too_large")]
    /\ UNCHANGED <<user_last_request, awaiting, accepted>>
    /\ UNCHANGED <<mainVars, sideVars>>

\* line 115: reading response.content raises
ReadBodyRaises(e) ==
    /\ call.pc = "read_body"
    /\ call' = [call EXCEPT !.pc = "except", !.exc = e]
    /\ UNCHANGED <<user_last_request, awaiting, accepted>>
    /\ UNCHANGED <<mainVars, sideVars>>

\* lines 115-116: response.content reads the whole body
ReadBody(size) ==
    /\ call.pc = "read_body"
    /\ call' = [call EXCEPT !.pc = "reply_audio", !.body_read = TRUE,
                            !.body_size = size]
    /\ UNCHANGED <<user_last_request, awaiting, accepted>>
    /\ UNCHANGED <<mainVars, sideVars>>

\* line 118: await reply_audio; the coroutine gives up the event loop.
\* Line 119 reads neither the response nor audio_data, so the suspended
\* frame keeps no header and no body.
ReplyAudio ==
    /\ call.pc = "reply_audio"
    /\ awaiting' = awaiting (+) SetToBag({[call EXCEPT !.pc = "log_info",
                                                      !.replies = Append(@, "audio"),
                                                      !.content_length = NoHeader,
                                                      !.body_size = 0]})
    /\ call' = Frame0
    /\ UNCHANGED <<user_last_request, accepted>>
    /\ UNCHANGED <<mainVars, sideVars>>

\* line 119, when the event loop resumes the coroutine f
LogInfo(f) ==
    /\ LoopFree
    /\ BagIn(f, awaiting)
    /\ awaiting' = awaiting (-) SetToBag({f})
    /\ call' = [f EXCEPT !.pc = "done", !.logs = Append(@, "INFO")]
    /\ UNCHANGED <<user_last_request, accepted>>
    /\ UNCHANGED <<mainVars, sideVars>>

\* lines 121-123: the handler of the try block
Except ==
    /\ call.pc = "except"
    /\ IF Catches(call.exc)
       THEN call' = [call EXCEPT !.pc = "done",
                                 !.logs = Append(@, "ERROR"),
                                 !.replies = Append(@, "error")]
       ELSE call' = [call EXCEPT !.pc = "propagated"]
    /\ UNCHANGED <<user_last_request, awaiting, accepted>>
    /\ UNCHANGED <<mainVars, sideVars>>

\* the coroutine has returned, or raised an exception the application
\* handles itself: the application is done with the update.  A SystemExit
\* is not an Exception and keeps unwinding.
Return ==
    /\ call.pc = "done" \/ (call.pc = "propagated" /\ call.exc # "SystemExit")
    /\ call' = Frame0
    /\ UNCHANGED <<user_last_request, awaiting, accepted>>
    /\ UNCHANGED <<mainVars, sideVars>>

\* line 158 builds the application with its defaults: an update is handed
\* to handle_message when the handling of the previous one is over
NoneInFlight == InFlight = 0

Next ==
    \/ MainCheckToken
    \/ MainInstallSignals
    \/ MainStartHealth
    \/ MainAddHandlers
    \/ MainRunPolling
    \/ \E u \in Users, now \in Times : NoneInFlight /\ RateCheck(u, now)
    \/ ReplyWait
    \/ Record
    \/ \E txt \in Texts : Validate(txt)
    \/ ReplyInvalid
    \/ \E e \in ResolverErrors : ResolveRaises(e)
    \/ \E info \in Infos : ResolveReturns(info)
    \/ ReplyNoFetch
    \/ \E e \in FetchErrors : FetchRaises(e)
    \/ \E cl \in ContentLengths : FetchReturns(cl)
    \/ ReplyTooLarge
    \/ \E e \in BodyErrors : ReadBodyRaises(e)
    \/ \E size \in BodySizes : ReadBody(size)
    \/ ReplyAudio
    \/ \E f \in BagToSet(awaiting) : LogInfo(f)
    \/ Except
    \/ Return

Spec == Init /\ [][Next]_vars

\* the platform dispatching updates concurrently: handle_message is called
\* whenever the event loop is free, also while earlier invocations wait at
\* their await
NextConcurrent ==
    \/ Next
    \/ \E u \in Users, now \in Times : RateCheck(u, now)

SpecConcurrent == Init /\ [][NextConcurrent]_vars

\* ------------------------------------- the health server's thread (134-136)
\* what the request pipeline is doing: nothing, answering a rate-limited
\* request, inside a call of the resolver, the fetch or the body read, or
\* anything else
PipelineState ==
    IF InFlight = 0 THEN "idle"
    ELSE IF call.pc = "reply_wait" THEN "rejecting"
    ELSE IF call.pc \in {"resolve", "fetch", "read_body"} THEN "blocked"
    ELSE "busy"

\* the thread started at line 156 serves one GET request
HealthGet(path) ==
    /\ health_thread
    /\ exit_code = -1
    /\ http_response' = [path |-> path,
                         status |-> do_GET(path).status,
                         body |-> do_GET(path).body,
                         during |-> PipelineState]
    /\ UNCHANGED <<mainVars, botVars, sanitize, loop_signals, stop>>

NextHealth ==
    \/ Next
    \/ \E path \in Paths : HealthGet(path)

SpecHealth == Init /\ [][NextHealth]_vars

\* ------------------------------------------ termination signals (141-163)
\* lines of handle_message inside the try block of line 98
TryBlock ==
    {"resolve", "reply_nofetch", "fetch", "reply_toolarge", "read_body",
     "reply_audio"}

\* line 163: run_polling() is called without stop_signals.  Where the
\* platform supports it the event loop then registers SIGINT and SIGTERM
\* for itself, which replaces the handlers of lines 153-154; elsewhere
\* they stay.
LoopAddSignalHandlers ==
    /\ main_pc = "polling"
    /\ signals # {}
    /\ stop = NoStop
    /\ loop_signals' = signals
    /\ signals' = {}
    /\ UNCHANGED <<BOT_TOKEN, main_pc, exit_code, health_thread, handlers>>
    /\ UNCHANGED <<botVars, sanitize, http_response, stop>>

\* lines 141-143: signal_handler runs in the main thread, wherever that
\* thread is; it logs and sys.exit(0) raises SystemExit there.  With no
\* frame of handle_message on the stack the exception leaves main.
Signal(sig) ==
    /\ sig \in signals
    /\ exit_code = -1
    /\ stop = NoStop
    /\ stop' = [signal |-> sig, via |-> "handler", logged |-> TRUE]
    /\ IF call.pc = "idle"
       THEN /\ main_pc' = "exited"
            /\ exit_code' = 0
            /\ call' = Frame0
            /\ awaiting' = EmptyBag
       ELSE /\ call' = [call EXCEPT !.exc = "SystemExit",
                                    !.pc = IF call.pc \in TryBlock THEN "except"
                                           ELSE "propagated"]
            /\ UNCHANGED <<main_pc, exit_code, awaiting>>
    /\ UNCHANGED <<BOT_TOKEN, signals, health_thread, handlers>>
    /\ UNCHANGED <<user_last_request, accepted>>
    /\ UNCHANGED <<sanitize, http_response, loop_signals>>

\* the SystemExit of line 143 has left handle_message and leaves main:
\* the process ends with the code given to sys.exit
SystemExitLeaves ==
    /\ call.pc = "propagated"
    /\ call.exc = "SystemExit"
    /\ exit_code = -1
    /\ main_pc' = "exited"
    /\ exit_code' = 0
    /\ call' = Frame0
    /\ awaiting' = EmptyBag
    /\ UNCHANGED <<BOT_TOKEN, signals, health_thread, handlers>>
    /\ UNCHANGED <<user_last_request, accepted>>
    /\ UNCHANGED sideVars

\* a signal the event loop has registered for itself arrives: the loop
\* notes it; signal_handler is not called
StopSignal(sig) ==
    /\ sig \in loop_signals
    /\ exit_code = -1
    /\ stop = NoStop
    /\ stop' = [signal |-> sig, via |-> "loop", logged |-> FALSE]
    /\ UNCHANGED <<mainVars, botVars, sanitize, http_response, loop_signals>>

\* line 163 returns: the event loop, free again, acts on the signal it
\* noted and stops; main returns and the process ends with code 0
LoopStops ==
    /\ stop.via = "loop"
    /\ LoopFree
    /\ exit_code = -1
    /\ main_pc' = "exited"
    /\ exit_code' = 0
    /\ call' = Frame0
    /\ awaiting' = EmptyBag
    /\ UNCHANGED <<BOT_TOKEN, signals, health_thread, handlers>>
    /\ UNCHANGED <<user_last_request, accepted>>
    /\ UNCHANGED sideVars

NextSignals ==
    \/ Next
    \/ LoopAddSignalHandlers
    \/ \E sig \in {"SIGINT", "SIGTERM"} : Signal(sig)
    \/ SystemExitLeaves
    \/ \E sig \in {"SIGINT", "SIGTERM"} : StopSignal(sig)
    \/ LoopStops

\* a step of the invocation that holds the event loop
PipelineStep ==
    \/ ReplyWait
    \/ Record
    \/ \E txt \in Texts : Validate(txt)
    \/ ReplyInvalid
    \/ \E e \in ResolverErrors : ResolveRaises(e)
    \/ \E info \in Infos : ResolveReturns(info)
    \/ ReplyNoFetch
    \/ \E e \in FetchErrors : FetchRaises(e)
    \/ \E cl \in ContentLengths : FetchReturns(cl)
    \/ ReplyTooLarge
    \/ \E e \in BodyErrors : ReadBodyRaises(e)
    \/ \E size \in BodySizes : ReadBody(size)
    \/ ReplyAudio
    \/ Except
    \/ Return

\* the calls of the resolver and the fetcher return or raise (line 107 has
\* a timeout), a raised exception unwinds, and the event loop runs the
\* callbacks that are ready in the order in which they became ready
SpecSignals ==
    /\ Init
    /\ [][NextSignals]_vars
    /\ WF_vars(PipelineStep)
    /\ WF_vars(SystemExitLeaves)
    /\ SF_vars(LoopStops)

\* ----------------------------------- sanitize_filename on its own (63-65)
InitSanitize ==
    /\ BOT_TOKEN \in BotTokenEnv
    /\ main_pc = "check_token"
    /\ exit_code = -1
    /\ signals = {}
    /\ health_thread = FALSE
    /\ handlers = {}
    /\ user_last_request = <<>>
    /\ call = Frame0
    /\ awaiting = EmptyBag
    /\ accepted = [u \in Users |-> <<>>]
    /\ sanitize \in {[NoSanitize EXCEPT !.filename = s] : s \in Filenames}
    /\ http_response = NoResponse
    /\ loop_signals = {}
    /\ stop = NoStop

\* sanitize_filename(filename) is called and returns
SanitizeCall ==
    /\ sanitize.calls = 0
    /\ sanitize' = [sanitize EXCEPT !.clean = sanitize_filename(sanitize.filename),
                                    !.calls = 1]
    /\ UNCHANGED <<mainVars, botVars, http_response, loop_signals, stop>>

\* sanitize_filename is called with the value it returned
SanitizeAgain ==
    /\ sanitize.calls = 1
    /\ sanitize' = [filename |-> sanitize.clean,
                    clean |-> sanitize_filename(sanitize.clean),
                    calls |-> 2]
    /\ UNCHANGED <<mainVars, botVars, http_response, loop_signals, stop>>

NextSanitize ==
    \/ SanitizeCall
    \/ SanitizeAgain

SpecSanitize == InitSanitize /\ [][NextSanitize]_vars

\* every frame of handle_message
Frames == {call} \cup BagToSet(awaiting)

TypeOK ==
    /\ DOMAIN user_last_request \subseteq Users
    /\ InFlight <= NTasks
    /\ call.pc \in
          {"idle", "reply_wait", "record", "validate", "reply_invalid",
           "resolve", "reply_nofetch", "fetch", "reply_toolarge", "read_body",
           "reply_audio", "except", "done", "propagated"}
    /\ \A f \in BagToSet(awaiting) : f.pc = "log_info"

\* ================================================================ claims
Range(s) == {s[i] : i \in 1..Len(s)}

Dist(a, b) == IF a >= b THEN a - b ELSE b - a

\* pcs of an invocation that passed the rate check and has not yet returned
PastCheck ==
    {"record", "validate", "reply_invalid", "resolve", "reply_nofetch", "fetch",
     "reply_toolarge", "read_body", "reply_audio", "log_info", "except"}

\* C1: any two requests of one identity that both pass the rate check have
\* arrival times at least RATE_LIMIT_SECONDS apart.
C1_AcceptedSpacing ==
    \A u \in Users : \A i \in 1..Len(accepted[u]) : \A j \in 1..Len(accepted[u]) :
        i < j => Dist(accepted[u][i], accepted[u][j]) >= RATE_LIMIT_SECONDS

\* two requests of one identity have passed the check, the second while the
\* first is still suspended at line 118
C1_Witness ==
    \E f \in BagToSet(awaiting) :
        /\ call.pc \in PastCheck
        /\ call.user_id = f.user_id
        /\ accepted[f.user_id] = <<f.current_time, call.current_time>>

\* C2: a request of an identity that has no rate-limit entry is never
\* answered with 'please wait', whatever the arrival time.
C2_FirstRequestAllowed == call.pc = "reply_wait" => call.had_entry

\* C3 as stated: the entry of an identity changes only in an invocation of
\* that identity that has already sent its audio reply.
C3_RecordedOnlyAfterAudio ==
    [][\A u \in Users :
          DefaultGet(user_last_request', u) # DefaultGet(user_last_request, u)
          => \E f \in Frames : f.user_id = u /\ "audio" \in Range(f.replies)]_vars

\* replies of an invocation that stopped at validation, resolution, the size
\* check or the fetch
StoppedReplies ==
    {<<"invalid_url">>, <<"could_not_fetch">>, <<"too_large">>, <<"error">>}

\* C3 amended: the entry of an identity changes only at line 91 of an
\* invocation of that identity that has just passed the rate check and has
\* neither validated its text, called the resolver nor replied; line 91
\* stores the arrival time; and an invocation that stops at validation,
\* resolution, the size check or the fetch leaves its own arrival time in
\* the entry.
C3_RecordedOnAcceptance ==
    [][/\ \A u \in Users :
            DefaultGet(user_last_request', u) # DefaultGet(user_last_request, u)
            => /\ call.user_id = u
               /\ call.pc = "record" /\ call'.pc = "validate"
               /\ call.replies = <<>> /\ call.resolver_calls = 0
               /\ DefaultGet(user_last_request', u) = call.current_time
       /\ (call.pc = "record" /\ call'.pc # "record")
            => DefaultGet(user_last_request', call.user_id) = call.current_time
       /\ (call'.pc = "done" /\ call'.replies \in StoppedReplies)
            => DefaultGet(user_last_request', call'.user_id) = call'.current_time
      ]_vars

\* a request stopped at input validation and its arrival time is the entry
C3_Witness ==
    /\ call.pc = "done" /\ call.replies = <<"invalid_url">>
    /\ call.user_id \in DOMAIN user_last_request
    /\ user_last_request[call.user_id] = call.current_time
    /\ call.current_time >= RATE_LIMIT_SECONDS

\* C4: with a recorded entry last, a request arriving at now passes the
\* rate check if and only if now - last >= RATE_LIMIT_SECONDS.
C4_AllowedIffWindowElapsed ==
    LET last == DefaultGet(user_last_request, call.user_id)
    IN  call.had_entry =>
          /\ call.pc = "reply_wait" => ~(call.current_time - last >= RATE_LIMIT_SECONDS)
          /\ call.pc = "record" => call.current_time - last >= RATE_LIMIT_SECONDS

\* window 10: after an accepted request, a request of the same identity
\* arriving exactly 10 later has passed the check
C4_Witness ==
    LET u == call.user_id
    IN  /\ RATE_LIMIT_SECONDS = 10
        /\ call.pc = "record" /\ call.had_entry
        /\ accepted[u] = <<user_last_request[u], call.current_time>>
        /\ call.current_time = user_last_request[u] + 10

\* C5: a request rejected by the rate check changes no identity's recorded
\* timestamp and no acceptance, and calls neither the resolver nor the
\* fetcher; its only output is the 'please wait' reply.
C5_RejectionHasNoEffect ==
    [][call'.pc = "reply_wait" \/ call.pc = "reply_wait"
          => /\ \A u \in Users :
                  DefaultGet(user_last_request', u) = DefaultGet(user_last_request, u)
             /\ accepted' = accepted
             /\ awaiting' = awaiting
             /\ call'.resolver_calls = 0 /\ call'.fetch_calls = 0
             /\ ~call'.body_read /\ call'.logs = <<>>
             /\ call'.replies \in {<<>>, <<"wait">>}
             /\ call'.pc \in {"reply_wait", "done"}]_vars

\* a request of an identity with a recorded timestamp was rejected, and
\* another identity has a recorded timestamp too
C5_Witness ==
    /\ call.pc = "done" /\ call.replies = <<"wait">>
    /\ call.had_entry
    /\ user_last_request[call.user_id] >= RATE_LIMIT_SECONDS
    /\ call.current_time > user_last_request[call.user_id]
    /\ \E u \in DOMAIN user_last_request :
          u # call.user_id /\ user_last_request[u] >= RATE_LIMIT_SECONDS

Finished == {"done", "propagated"}

ReplyKinds ==
    {"audio", "wait", "invalid_url", "could_not_fetch", "too_large", "error"}

\* C6: an invocation never sends more than one reply, and when it is over
\* it has sent exactly one: the audio or one text message.
C6_ExactlyOneReply ==
    \A f \in Frames :
        /\ Len(f.replies) <= 1
        /\ f.pc \in Finished \cup {"log_info"} =>
              Len(f.replies) = 1 /\ f.replies[1] \in ReplyKinds

\* the size-exceeded path has ended with its one reply
C6_Witness == call.pc = "done" /\ call.replies = <<"too_large">>

\* C7: the resolver is called only in an invocation that passed the rate
\* check and whose trimmed text starts with "http"; an invocation that
\* answers 'invalid URL' has called neither the resolver nor the fetcher.
C7_ResolverOnlyForUrls ==
    \A f \in Frames :
        /\ f.pc = "resolve" \/ f.resolver_calls > 0 =>
              /\ f.current_time \in Range(accepted[f.user_id])
              /\ "wait" \notin Range(f.replies)
              /\ StartsWith(f.url, HTTP)
              /\ f.url = Strip(f.url)
        /\ "invalid_url" \in Range(f.replies) \/ f.pc = "reply_invalid" =>
              /\ ~StartsWith(f.url, HTTP)
              /\ f.resolver_calls = 0 /\ f.fetch_calls = 0

\* the resolver was called for a text that needed trimming
C7_Witness ==
    /\ call.resolver_calls = 1
    /\ call.url = <<"h", "t", "t", "p", "s", ":", "/", "/", "k">>

\* C8: the fetcher is called only after the resolver returned a result
\* with a stream URL; the body is read, and audio sent, only when the
\* reported content-length does not exceed MAX_FILE_SIZE_MB * 1024 * 1024;
\* the 'could not fetch' reply comes without a fetch and the size-exceeded
\* reply without a body read.
C8_FetchAndReadGates ==
    \A f \in Frames :
        LET exceeds == /\ HeaderGiven(f.content_length)
                       /\ IsDecimal(f.content_length)
                       /\ ParseInt(f.content_length) > 50 * 1024 * 1024
        IN  /\ f.pc = "fetch" \/ f.fetch_calls > 0 =>
                ~f.info.isNone /\ "url" \in f.info.keys
            /\ "could_not_fetch" \in Range(f.replies) \/ f.pc = "reply_nofetch" =>
                f.fetch_calls = 0 /\ ~f.body_read
            /\ f.body_read \/ f.pc = "read_body" => ~exceeds /\ f.fetch_calls = 1
            /\ "audio" \in Range(f.replies) => f.body_read
            /\ "too_large" \in Range(f.replies) \/ f.pc = "reply_toolarge" =>
                exceeds /\ ~f.body_read /\ "audio" \notin Range(f.replies)

\* a body was read under a content-length equal to the limit
C8_Witness ==
    /\ call.pc = "reply_audio"
    /\ call.body_read
    /\ call.fetch_calls = 1
    /\ IsDecimal(call.content_length)
    /\ ParseInt(call.content_length) = SizeLimit

\* C9: an exception of the resolver, the fetch or the body read never
\* leaves the handler: the invocation ends with one ERROR log record and
\* one error reply and no audio, and the process keeps polling.
C9_ExceptionsCaught ==
    \A f \in Frames :
        f.exc # "none" =>
            /\ f.pc \in {"except", "done"}
            /\ "audio" \notin Range(f.replies)
            /\ f.pc = "done" => f.logs = <<"ERROR">> /\ f.replies = <<"error">>
            /\ f.pc = "except" => f.logs = <<>> /\ f.replies = <<>>
            /\ Polling /\ exit_code = -1

\* the fetch failed with an HTTP error status and the handler has returned
C9_Witness ==
    /\ call.exc = "HTTPError" /\ call.pc = "done"
    /\ call.fetch_calls = 1

\* C10: with BOT_TOKEN unset or equal to the placeholder, main stops at
\* its first step with exit code 1: no health thread, no handler and no
\* polling, hence no invocation of handle_message.
C10_MissingTokenAborts ==
    BOT_TOKEN \in {NoEnv, PLACEHOLDER} =>
        /\ ~health_thread
        /\ handlers = {}
        /\ signals = {}
        /\ main_pc \in {"check_token", "exited"}
        /\ main_pc = "exited" => exit_code = 1
        /\ call.pc = "idle" /\ awaiting = EmptyBag

\* main has exited with code 1 because BOT_TOKEN was not set
C10_Witness == BOT_TOKEN = NoEnv /\ main_pc = "exited" /\ exit_code = 1

\* C11: sanitize_filename returns for every string; the result holds none
\* of the characters < > : " / \ | ? *, is at most 100 characters long and
\* is the argument's first 100 characters with each forbidden one replaced
\* by "_" and every other one kept; applied to its own result, or to a
\* clean string of at most 100 characters, it returns its argument.
C11_SanitizeContract ==
    LET s == sanitize.filename
        r == sanitize.clean
    IN  /\ sanitize_filename(s) \in Seq(NameChars)
        /\ sanitize.calls > 0 =>
            /\ r = sanitize_filename(s)
            /\ \A i \in 1..Len(r) : r[i] \notin Forbidden
            /\ Len(r) <= 100
            /\ Len(r) = IF Len(s) <= 100 THEN Len(s) ELSE 100
            /\ \A i \in 1..Len(r) :
                  /\ s[i] \notin Forbidden => r[i] = s[i]
                  /\ s[i] \in Forbidden => r[i] = "_"
            /\ sanitize_filename(r) = r
            /\ (Len(s) <= 100 /\ \A i \in 1..Len(s) : s[i] \notin Forbidden) => r = s
        /\ sanitize.calls = 2 => r = s

\* a name of 101 characters whose 100th is a backslash and whose last is a
\* slash was cut after the 100th character and the backslash replaced
C11_Witness ==
    /\ sanitize.calls = 1
    /\ sanitize.filename = [i \in 1..99 |-> "a"] \o <<"\\", "/">>
    /\ sanitize.clean = [i \in 1..99 |-> "a"] \o <<"_">>

\* C12: once the health thread is started and while the process runs, a
\* GET request for any path can be served in every state of the request
\* pipeline; serving it writes status 200 and the body "Bot is running" and
\* leaves the rate-limit mapping and every invocation as they were, and the
\* response is the same whatever the mapping holds.
C12_HealthAlwaysAnswers ==
    [][/\ (health_thread /\ exit_code = -1) =>
              \A path \in Paths : ENABLED HealthGet(path)
       /\ http_response' # http_response =>
              /\ http_response'.status = 200
              /\ http_response'.body = "Bot is running"
              /\ http_response'.path \in Paths
              /\ user_last_request' = user_last_request
              /\ call' = call /\ awaiting' = awaiting /\ accepted' = accepted
      ]_vars

\* a GET for a path other than the root was answered while an invocation
\* was inside a call of the fetcher, and a rate-limit entry is recorded
C12_Witness ==
    /\ http_response.path = "/healthz"
    /\ http_response.status = 200
    /\ http_response.body = "Bot is running"
    /\ http_response.during = "blocked"
    /\ call.pc = "fetch"
    /\ user_last_request # <<>>

\* C13 as stated needs this interleaving point: while an invocation is
\* between its rate check (line 88) and its record (line 91), a second
\* message of the same identity can be dispatched and pass its own check.
C13_CheckRecordInterleave ==
    (Polling /\ call.pc = "record" /\ InFlight < NTasks) =>
        ENABLED (\E now \in Times : RateCheck(call.user_id, now))

\* C13 amended: the rate check and the record of an invocation are one
\* uninterrupted run of the event loop.  The step after a passed check is
\* that invocation's line 91 and stores its arrival time; no other
\* invocation is dispatched or resumed in between; and a request passes
\* its check only if every invocation of the same identity still in flight
\* arrived at least RATE_LIMIT_SECONDS before or after it.
C13_CheckAndRecordAtomic ==
    [][/\ call.pc = "record" =>
              /\ call'.pc = "validate"
              /\ call'.user_id = call.user_id
              /\ call'.current_time = call.current_time
              /\ awaiting' = awaiting
              /\ DefaultGet(user_last_request', call.user_id) = call.current_time
       /\ call'.pc = "record" =>
              \A f \in BagToSet(awaiting') :
                  f.user_id = call'.user_id =>
                      Dist(f.current_time, call'.current_time) >= RATE_LIMIT_SECONDS
       /\ \A f \in BagToSet(awaiting') : CopiesIn(f, awaiting') = 1
      ]_vars

\* a message was dispatched while an invocation of the same identity was
\* suspended at line 118, less than a window after that one's arrival, and
\* it was rejected
C13_Witness ==
    \E f \in BagToSet(awaiting) :
        /\ call.pc = "reply_wait"
        /\ call.user_id = f.user_id
        /\ f.current_time >= RATE_LIMIT_SECONDS
        /\ Dist(call.current_time, f.current_time) < RATE_LIMIT_SECONDS

\* C14: an invocation never emits more than one log record, and when it
\* has returned it has emitted exactly one, on every path.
C14_ExactlyOneLog ==
    \A f \in Frames :
        /\ Len(f.logs) <= 1
        /\ f.pc \in Finished => Len(f.logs) = 1

\* a termination signal has reached the process
Signalled == stop.signal # "none"

\* C15: once polling has started, a SIGINT or SIGTERM can arrive in every
\* state; its arrival is logged by signal_handler, the SystemExit is never
\* turned into the error reply of the catch-all handler, and the process
\* then ends with exit code 0.
C15_SignalExitsLogged ==
    /\ [](Polling /\ exit_code = -1 /\ ~Signalled =>
             \A sig \in {"SIGINT", "SIGTERM"} :
                 ENABLED (Signal(sig) \/ StopSignal(sig)))
    /\ [](Signalled => stop.logged)
    /\ [](\A f \in Frames : f.exc = "SystemExit" => f.pc \in {"except", "propagated"})
    /\ [](main_pc = "exited" /\ Signalled => exit_code = 0)
    /\ Signalled ~> (main_pc = "exited" /\ exit_code = 0)

\* the part of C15 that does not depend on who handles the signal: the
\* signal is never swallowed and the process ends with exit code 0
C15_SignalExits ==
    /\ [](Polling /\ exit_code = -1 /\ ~Signalled =>
             \A sig \in {"SIGINT", "SIGTERM"} :
                 ENABLED (Signal(sig) \/ StopSignal(sig)))
    /\ [](stop.via = "handler" => stop.logged)
    /\ [](\A f \in Frames : f.exc = "SystemExit" => f.pc \in {"except", "propagated"})
    /\ [](main_pc = "exited" /\ Signalled => exit_code = 0)
    /\ Signalled ~> (main_pc = "exited" /\ exit_code = 0)

\* SIGTERM reached signal_handler while an invocation was inside the fetch
\* call of the try block, and the process has ended with code 0
C15_SignalInTryBlock ==
    /\ call.exc = "SystemExit" /\ call.pc = "except" /\ call.fetch_calls = 0
    /\ call.info.keys = {"url", "title"}
    /\ stop = [signal |-> "SIGTERM", via |-> "handler", logged |-> TRUE]

\* the identity whose message a step handles
Actor == IF call.pc = "idle" THEN call'.user_id ELSE call.user_id

\* arrival time of the identity's last request that passed the rate check,
\* 0 if there is none
LastOwn(b) == IF accepted[b] = <<>> THEN 0 ELSE accepted[b][Len(accepted[b])]

\* C16: a step of an invocation for one identity neither inserts (as a
\* read of a missing key does) nor changes the rate-limit entry of another
\* identity, and whether a request is allowed is decided by the arrival
\* times of the same identity's earlier accepted requests alone, in every
\* interleaving of invocations.
C16_IdentityIsolation ==
    [][\A b \in Users :
          /\ ((b \in DOMAIN user_last_request') # (b \in DOMAIN user_last_request)
              \/ DefaultGet(user_last_request', b) # DefaultGet(user_last_request, b)
              \/ accepted'[b] # accepted[b])
                => Actor = b
          /\ (call.pc = "idle" /\ call'.pc \in {"reply_wait", "record"}
              /\ call'.user_id = b)
                => /\ (call'.pc = "reply_wait")
                        = (call'.current_time - LastOwn(b) < RATE_LIMIT_SECONDS)
                   /\ \A a \in Users \ {b} :
                        /\ accepted'[a] = accepted[a]
                        /\ (a \in DOMAIN user_last_request') = (a \in DOMAIN user_last_request)
      ]_vars

\* a request of an identity with an earlier accepted request has passed
\* its check while a request of another identity, accepted less than a
\* window before, is still in flight
C16_Witness ==
    \E f \in BagToSet(awaiting) :
        /\ call.pc = "record" /\ call.had_entry
        /\ Len(accepted[call.user_id]) = 2
        /\ f.user_id # call.user_id
        /\ Dist(f.current_time, call.current_time) < RATE_LIMIT_SECONDS

\* C17: the response of the fetch is answered with 'file too large' only
\* if it has a content-length header whose value exceeds
\* MAX_FILE_SIZE_MB * 1024 * 1024; without the header, with an empty one,
\* or with a value up to and including that threshold, the body is read
\* whole, whatever its length, and the audio reply is sent with it.
C17_SizeGate ==
    [][/\ (call.pc = "fetch" /\ call'.pc # "fetch" /\ call'.exc = "none") =>
              LET cl == call'.content_length
              IN  /\ call'.pc \in {"reply_toolarge", "read_body"}
                  /\ (call'.pc = "reply_toolarge") =
                        (/\ cl # NoHeader /\ cl # <<>>
                         /\ ParseInt(cl) > 50 * 1024 * 1024)
                  /\ cl \in {NoHeader, <<>>} => call'.pc = "read_body"
                  /\ (IsDecimal(cl) /\ ParseInt(cl) = 50 * 1024 * 1024)
                        => call'.pc = "read_body"
       /\ (call.pc = "fetch" /\ call'.exc = "ValueError") =>
              /\ call'.content_length \notin {NoHeader, <<>>}
              /\ ~IsDecimal(call'.content_length)
       /\ call'.replies = <<"too_large">> =>
              /\ IsDecimal(call'.content_length)
              /\ ParseInt(call'.content_length) > 50 * 1024 * 1024
              /\ ~call'.body_read
       /\ call.pc = "read_body" =>
              \/ call'.pc = "reply_audio" /\ call'.body_read
                    /\ call'.body_size \in BodySizes
              \/ call'.pc = "except" /\ call'.exc \in BodyErrors
       /\ call.pc = "reply_audio" =>
              \E f \in BagToSet(awaiting') :
                  /\ f.user_id = call.user_id /\ f.current_time = call.current_time
                  /\ f.replies = <<"audio">> /\ f.body_read
                  /\ awaiting' = awaiting (+) SetToBag({f})
      ]_vars

\* a response without content-length: the body, longer than the threshold,
\* has been read whole and is handed to reply_audio
C17_Witness ==
    /\ call.pc = "reply_audio"
    /\ call.content_length = NoHeader
    /\ call.body_read
    /\ call.body_size > 50 * 1024 * 1024
====
